---- MODULE Spec2Model ----
(***************************************************************************)
(* The NGram index of ngram.py: a set of items with an inverted index from *)
(* n-grams to the items containing them (_grams) and the padded length of  *)
(* every item (length).  Strings are sequences of one-character strings.   *)
(* Similarities are exact fractions <<numerator, denominator>>.            *)
(***************************************************************************)
EXTENDS Integers, Sequences, FiniteSets, TLC

\* ---- bounds of the model
\* Spec: length of the keys added, calls made on one index, size of a collection
MaxLen == 3
MaxOps == 3
MaxOther == 2
\* SpecSeeded: length of the keys and queries, number of items given to __init__
MaxKeyLen == 1
MaxSeed == 2
\* SpecCompare: length of the strings compared
MaxStrLen == 2
\* every specification: the n-gram widths tried
MaxN == 2

\* ---- constants of the program
DefaultN == 3
MaxWarp == 3

\* ---- sets the inputs are drawn from; keys may contain the padding character
pad_char == "$"
Alphabet == {"a", pad_char}
None == <<"None">>
NoError == "none"

StringsUpTo(n) == UNION {[1..k -> Alphabet] : k \in 0..n}
Items == StringsUpTo(MaxLen)
Keys == StringsUpTo(MaxKeyLen)
Others == {S \in SUBSET Keys : Cardinality(S) <= MaxOther}
Seeds == {S \in SUBSET Keys : Cardinality(S) <= MaxSeed}
Strings == StringsUpTo(MaxStrLen)
Thresholds == {<<0, 1>>, <<1, 2>>, <<1, 1>>}
Warps == 1..MaxWarp

VARIABLES N, pad_len, threshold, warp, members, length, grams, ops, last
vars == <<N, pad_len, threshold, warp, members, length, grams, ops, last>>
config == <<N, pad_len, threshold, warp>>
index == <<members, length, grams>>

\* ---- dictionaries as functions
EmptyDict == [k \in {} |-> 0]
Put(d, k, v) == [x \in (DOMAIN d) \cup {k} |-> IF x = k THEN v ELSE d[x]]
Del(d, k) == [x \in (DOMAIN d) \ {k} |-> d[x]]

\* NGram.key with the default key=None: the item is its own key
key(item) == item

\* NGram.pad
padding(n) == [i \in 1..n |-> pad_char]
padWith(string, pl) == padding(pl) \o string \o padding(pl)
pad(string) == padWith(string, pad_len)

\* NGram._split: range(len(string) - N + 1) is empty when the bound is <= 0
splitWith(string, n) ==
  [i \in 1..(IF Len(string) - n + 1 > 0 THEN Len(string) - n + 1 ELSE 0)
     |-> SubSeq(string, i, i + n - 1)]
_split(string) == splitWith(string, N)
split(string) == _split(pad(string))
splititem(item) == split(key(item))

\* NGram.add, the loop of lines 173-177 from position i on
RECURSIVE addGrams(_, _, _, _)
addGrams(g, item, ngrams, i) ==
  IF i > Len(ngrams) THEN g
  ELSE LET ngram == ngrams[i]
           bucket == IF ngram \in DOMAIN g THEN g[ngram] ELSE EmptyDict
           count == IF item \in DOMAIN bucket THEN bucket[item] ELSE 0
       IN addGrams(Put(g, ngram, Put(bucket, item, count + 1)), item, ngrams, i + 1)

\* NGram.add on an index st = [members, length, grams]
addTo(st, item) ==
  IF item \in st.members THEN st
  ELSE LET padded_item == pad(key(item))
       IN [members |-> st.members \cup {item},
           length |-> Put(st.length, item, Len(padded_item)),
           grams |-> addGrams(st.grams, item, _split(padded_item), 1)]

\* NGram.remove, the loop of lines 190-191 from position i on: del raises
\* KeyError when the bucket or the entry is missing, keeping what was deleted
RECURSIVE delGrams(_, _, _, _)
delGrams(g, item, ngrams, i) ==
  IF i > Len(ngrams) THEN [grams |-> g, err |-> NoError]
  ELSE LET ngram == ngrams[i]
       IN IF ngram \notin DOMAIN g \/ item \notin DOMAIN g[ngram]
          THEN [grams |-> g, err |-> "KeyError"]
          ELSE delGrams(Put(g, ngram, Del(g[ngram], item)), item, ngrams, i + 1)

\* NGram.remove on an index st: the new index and the error raised, if any
removeFrom(st, item) ==
  IF item \notin st.members THEN [st |-> st, err |-> NoError]
  ELSE IF item \notin DOMAIN st.length
       THEN [st |-> [st EXCEPT !.members = @ \ {item}], err |-> "KeyError"]
       ELSE LET d == delGrams(st.grams, item, splititem(item), 1)
            IN [st |-> [members |-> st.members \ {item},
                        length |-> Del(st.length, item),
                        grams |-> d.grams],
                err |-> d.err]

EmptyIndex == [members |-> {}, length |-> EmptyDict, grams |-> EmptyDict]
cur == [members |-> members, length |-> length, grams |-> grams]
setIndex(st) == /\ members' = st.members
                /\ length' = st.length
                /\ grams' = st.grams

\* the orders in which a collection with element set S can be iterated
RECURSIVE Orders(_)
Orders(S) ==
  IF S = {} THEN {<<>>}
  ELSE UNION {{<<x>> \o o : o \in Orders(S \ {x})} : x \in S}

\* NGram.update: add every item of the sequence items, from position i on
RECURSIVE updateFrom(_, _, _)
updateFrom(st, items, i) ==
  IF i > Len(items) THEN st ELSE updateFrom(addTo(st, items[i]), items, i + 1)

\* NGram.discard
discardFrom(st, item) ==
  IF item \in st.members THEN removeFrom(st, item) ELSE [st |-> st, err |-> NoError]

\* NGram.difference_update: discard every item of the sequence other, from
\* position i on; an error of remove ends the loop
RECURSIVE differenceFrom(_, _, _)
differenceFrom(st, other, i) ==
  IF i > Len(other) THEN [st |-> st, err |-> NoError]
  ELSE LET r == discardFrom(st, other[i])
       IN IF r.err # NoError THEN r ELSE differenceFrom(r.st, other, i + 1)

\* NGram.symmetric_difference_update: line 416 passes two arguments to
\* difference_update, which takes one, so the call raises TypeError after
\* update has run
symmetric_difference_update(st, other) ==
  LET intersection == st.members \cap {other[i] : i \in 1..Len(other)}
  IN [st |-> updateFrom(st, other, 1), err |-> "TypeError"]

\* ---- similarity as an exact fraction <<numerator, denominator>>
frac(n, d) == IF d < 0 THEN <<0 - n, 0 - d>> ELSE <<n, d>>
Geq(x, y) == x[1] * y[2] >= y[1] * x[2]
Gt(x, y) == x[1] * y[2] > y[1] * x[2]
RECURSIVE Pow(_, _)
Pow(b, e) == IF e = 0 THEN 1 ELSE b * Pow(b, e - 1)

\* _similarity with the shared n-grams taken for the different ones: what the
\* formula of C7 must tell from _similarity
_similaritySwapped(samegrams, allgrams, w) ==
  IF w = 1 THEN frac(samegrams, allgrams)
  ELSE frac(Pow(allgrams, w) - Pow(samegrams, w), Pow(allgrams, w))

\* NGram._similarity (allgrams # 0; the caller raises ZeroDivisionError otherwise)
_similarity(samegrams, allgrams, w) ==
  IF w = 1 THEN frac(samegrams, allgrams)
  ELSE LET diffgrams == allgrams - samegrams
       IN frac(Pow(allgrams, w) - Pow(diffgrams, w), Pow(allgrams, w))

\* the loop of items_sharing_ngrams without the test of line 213, counting
\* every occurrence in the query: what the formula of C4 must tell from
\* sharingFrom
RECURSIVE sharingFromUncapped(_, _, _, _, _)
sharingFromUncapped(g, ngrams, i, remaining, shared) ==
  IF i > Len(ngrams) THEN shared
  ELSE LET ngram == ngrams[i]
       IN IF ngram \notin DOMAIN g
          THEN sharingFromUncapped(g, ngrams, i + 1, remaining, shared)
          ELSE LET hit == DOMAIN g[ngram]
                   shared2 == [m \in (DOMAIN shared) \cup hit |->
                                 (IF m \in DOMAIN shared THEN shared[m] ELSE 0)
                                 + (IF m \in hit THEN 1 ELSE 0)]
               IN sharingFromUncapped(g, ngrams, i + 1, remaining, shared2)

\* NGram.items_sharing_ngrams, the loop of lines 208-218 from position i on
RECURSIVE sharingFrom(_, _, _, _, _)
sharingFrom(g, ngrams, i, remaining, shared) ==
  IF i > Len(ngrams) THEN shared
  ELSE LET ngram == ngrams[i]
       IN IF ngram \notin DOMAIN g
          THEN sharingFrom(g, ngrams, i + 1, remaining, shared)
          ELSE LET bucket == g[ngram]
                   rem0 == IF ngram \in DOMAIN remaining THEN remaining[ngram] ELSE EmptyDict
                   rem1 == [m \in (DOMAIN rem0) \cup (DOMAIN bucket) |->
                              IF m \in DOMAIN rem0 THEN rem0[m] ELSE bucket[m]]
                   hit == {m \in DOMAIN bucket : rem1[m] > 0}
                   rem2 == [m \in DOMAIN rem1 |-> IF m \in hit THEN rem1[m] - 1 ELSE rem1[m]]
                   shared2 == [m \in (DOMAIN shared) \cup hit |->
                                 (IF m \in DOMAIN shared THEN shared[m] ELSE 0)
                                 + (IF m \in hit THEN 1 ELSE 0)]
               IN sharingFrom(g, ngrams, i + 1,
                              IF DOMAIN bucket = {} THEN remaining ELSE Put(remaining, ngram, rem2),
                              shared2)

items_sharing_ngrams(st, query) ==
  sharingFrom(st.grams, split(query), 1, EmptyDict, EmptyDict)

\* results.sort(key=lambda x:x[1], reverse=True): stable, by decreasing similarity
RECURSIVE insertDesc(_, _)
insertDesc(sorted, r) ==
  IF sorted = <<>> THEN <<r>>
  ELSE IF Gt(r[2], sorted[Len(sorted)][2])
       THEN Append(insertDesc(SubSeq(sorted, 1, Len(sorted) - 1), r), sorted[Len(sorted)])
       ELSE Append(sorted, r)
RECURSIVE sortDesc(_, _)
sortDesc(results, i) ==
  IF i = 0 THEN <<>> ELSE insertDesc(sortDesc(results, i - 1), results[i])

\* allgrams without the "+ 2" of line 257: what the formula of C10 must tell
\* from allgramsOf
allgramsNoOffset(query, matchLength, samegrams) ==
  Len(pad(query)) + matchLength - (2 * N) - samegrams

\* NGram.search, lines 256-257
allgramsOf(query, matchLength, samegrams) ==
  Len(pad(query)) + matchLength - (2 * N) - samegrams + 2

\* NGram.search, the loop of lines 255-260 over the entries of shared in the
\* order the dictionary yields them
RECURSIVE scoreFrom(_, _, _, _, _, _, _)
scoreFrom(st, query, thr, shared, order, i, acc) ==
  IF i > Len(order) THEN acc
  ELSE LET match == order[i]
           samegrams == shared[match]
       IN IF match \notin DOMAIN st.length
          THEN [acc EXCEPT !.err = "KeyError"]
          ELSE LET allgrams == allgramsOf(query, st.length[match], samegrams)
               IN IF allgrams = 0
                  THEN [acc EXCEPT !.err = "ZeroDivisionError"]
                  ELSE LET similarity == _similarity(samegrams, allgrams, warp)
                           sc == [match |-> match, samegrams |-> samegrams,
                                  allgrams |-> allgrams, similarity |-> similarity]
                       IN scoreFrom(st, query, thr, shared, order, i + 1,
                                    [acc EXCEPT !.scored = @ \cup {sc},
                                                !.results = IF Geq(similarity, thr)
                                                            THEN Append(@, <<match, similarity>>)
                                                            ELSE @])

\* NGram.search: th is the threshold argument (None when omitted)
search(st, query, th, order) ==
  LET thr == IF th # None THEN th ELSE threshold
      shared == items_sharing_ngrams(st, query)
      r == scoreFrom(st, query, thr, shared, order, 1,
                     [err |-> NoError, scored |-> {}, results |-> <<>>])
  IN IF r.err # NoError THEN [r EXCEPT !.results = <<>>]
     ELSE [r EXCEPT !.results = sortDesc(r.results, Len(r.results))]

\* NGram.searchitem
searchitem(st, item, th, order) == search(st, key(item), None, order)

\* NGram.finditem
finditem(st, item, th, order) ==
  LET r == searchitem(st, item, th, order)
  IN [err |-> r.err,
      found |-> IF r.err = NoError /\ r.results # <<>> THEN r.results[1][1] ELSE None]

\* NGram.compare: the similarity of s2 in a throwaway index of s1
\* (an index of one item yields the entries of shared in one order only)
compare(s1, s2) ==
  IF s1 = None \/ s2 = None
  THEN [err |-> NoError, value |-> IF s1 = s2 THEN <<1, 1>> ELSE <<0, 1>>]
  ELSE LET st == updateFrom(EmptyIndex, <<s1>>, 1)
           order == CHOOSE o \in Orders(DOMAIN items_sharing_ngrams(st, s2)) : TRUE
           r == search(st, s2, None, order)
       IN [err |-> r.err,
           value |-> IF r.err = NoError /\ r.results # <<>> THEN r.results[1][2] ELSE <<0, 1>>]

\* NGram.__init__: a valid configuration, then update(items)
InitWith(Ns, seeds) ==
  /\ N \in Ns
  /\ pad_len \in 0..(N - 1)
  /\ threshold \in Thresholds
  /\ warp \in Warps
  /\ \E seed \in seeds :
       \* update adds the items one by one; the index it builds is the same in
       \* every order, so one order is taken
       LET items == CHOOSE o \in Orders(seed) : TRUE
           built == updateFrom(EmptyIndex, items, 1)
       IN /\ members = built.members
          /\ length = built.length
          /\ grams = built.grams
  /\ ops = 0
  /\ last = [op |-> "init"]

\* ---- Spec: calls on an index constructed empty
Init == InitWith(1..MaxN, {{}})

\* a call that changes the index; at most MaxOps calls are made on an index
Call == ops < MaxOps /\ ops' = ops + 1 /\ UNCHANGED config

\* a query leaves the index as it is, so the calls after it reach what they
\* reach without it: a run is explored up to its first query
Query == ops < MaxOps /\ ops' = MaxOps /\ UNCHANGED config

\* last keeps the outcome of the latest call; after an add, the index there
\* was before it, and after the remove of the item just added, that index too
addStep(item) ==
  /\ setIndex(addTo(cur, item))
  /\ last' = [op |-> "add", err |-> NoError, pre |-> cur]

removeStep(item) ==
  LET r == removeFrom(cur, item)
      undo == last.op = "add" /\ item \in members \ last.pre.members
  IN /\ setIndex(r.st)
     /\ last' = [op |-> "remove", err |-> r.err, undo |-> undo,
                 pre |-> IF undo THEN last.pre ELSE EmptyIndex]

updateStep(other) ==
  /\ \E order \in Orders(other) : setIndex(updateFrom(cur, order, 1))
  /\ last' = [op |-> "update", err |-> NoError]

differenceStep(other) ==
  \E order \in Orders(other) :
    LET r == differenceFrom(cur, order, 1)
    IN /\ setIndex(r.st)
       /\ last' = [op |-> "difference_update", err |-> r.err]

symmetricStep(other) ==
  \E order \in Orders(other) :
    LET r == symmetric_difference_update(cur, order)
    IN /\ setIndex(r.st)
       /\ last' = [op |-> "symmetric_difference_update", other |-> other, err |-> r.err]

sharingStep(query) ==
  /\ UNCHANGED index
  /\ last' = [op |-> "items_sharing_ngrams", query |-> query,
              shared |-> items_sharing_ngrams(cur, query)]

searchStep(query, th) ==
  /\ UNCHANGED index
  /\ \E order \in Orders(DOMAIN items_sharing_ngrams(cur, query)) :
       LET r == search(cur, query, th, order)
       IN last' = [op |-> "search", query |-> query, th |-> th, err |-> r.err,
                   scored |-> r.scored, results |-> r.results]

searchitemStep(item, th) ==
  /\ UNCHANGED index
  /\ \E order \in Orders(DOMAIN items_sharing_ngrams(cur, key(item))) :
       LET r == searchitem(cur, item, th, order)
       IN last' = [op |-> "searchitem", item |-> item, th |-> th, err |-> r.err,
                   results |-> r.results]

finditemStep(item, th) ==
  /\ UNCHANGED index
  /\ \E order \in Orders(DOMAIN items_sharing_ngrams(cur, key(item))) :
       LET r == finditem(cur, item, th, order)
       IN last' = [op |-> "finditem", item |-> item, th |-> th, err |-> r.err,
                   found |-> r.found]

Add(item) == Call /\ addStep(item)
Remove(item) == Call /\ removeStep(item)
Update(other) == Call /\ updateStep(other)
DifferenceUpdate(other) == Call /\ differenceStep(other)
SymmetricDifferenceUpdate(other) == Call /\ symmetricStep(other)
ItemsSharingNgrams(query) == Query /\ sharingStep(query)
Search(query, th) == Query /\ searchStep(query, th)
SearchItem(item, th) == Query /\ searchitemStep(item, th)
FindItem(item, th) == Query /\ finditemStep(item, th)

Next ==
  \/ \E item \in Items : Add(item)
  \/ \E item \in Items : Remove(item)
  \/ \E other \in Others : Update(other)
  \/ \E other \in Others : DifferenceUpdate(other)
  \/ \E other \in Others : SymmetricDifferenceUpdate(other)
  \/ \E query \in Keys : ItemsSharingNgrams(query)
  \/ \E query \in Keys, th \in Thresholds \cup {None} : Search(query, th)
  \/ \E item \in Keys, th \in Thresholds \cup {None} : SearchItem(item, th)
  \/ \E item \in Keys, th \in Thresholds \cup {None} : FindItem(item, th)

Spec == Init /\ [][Next]_vars

\* ---- SpecSeeded: an index constructed from up to MaxSeed items, from which
\* members are removed and which is queried
InitSeeded == InitWith(1..MaxN, Seeds)

\* a removal is not counted: the members run out
Uncounted == ops < MaxOps /\ UNCHANGED <<ops, config>>
SeededRemove(item) == Uncounted /\ removeStep(item)
SeededSharing(query) == Query /\ sharingStep(query)
SeededSearch(query, th) == Query /\ searchStep(query, th)

NextSeeded ==
  \/ \E item \in Keys : SeededRemove(item)
  \/ \E query \in Keys : SeededSharing(query)
  \/ \E query \in Keys, th \in Thresholds \cup {None} : SeededSearch(query, th)

SpecSeeded == InitSeeded /\ [][NextSeeded]_vars

\* ---- SpecCompare: NGram.compare under the keyword arguments N, pad_len,
\* threshold and warp
InitCompare == InitWith(1..DefaultN, {{}})

Compare(s1, s2) ==
  /\ Query
  /\ UNCHANGED index
  /\ LET r == compare(s1, s2)
     IN last' = [op |-> "compare", s1 |-> s1, s2 |-> s2, err |-> r.err, value |-> r.value]

NextCompare == \E s1, s2 \in Strings \cup {None} : Compare(s1, s2)

SpecCompare == InitCompare /\ [][NextCompare]_vars

\* ---- what the claims speak of, computed from the strings alone
Min(a, b) == IF a <= b THEN a ELSE b
RECURSIVE Sum(_, _)
Sum(f, S) == IF S = {} THEN 0 ELSE LET x == CHOOSE y \in S : TRUE IN f[x] + Sum(f, S \ {x})

\* the positions of the n-gram g in a string, and the n-grams of a string
occ(g, string) ==
  Cardinality({i \in 1..(Len(string) - N + 1) : SubSeq(string, i, i + N - 1) = g})
gramsOf(string) == {SubSeq(string, i, i + N - 1) : i \in 1..(Len(string) - N + 1)}

\* members, length and _grams agree: an entry for exactly the members, and in
\* _grams[g] exactly for the n-grams g of the padded key, with their number
IndexConsistent(st) ==
  /\ DOMAIN st.length = st.members
  /\ \A g \in DOMAIN st.grams : \A m \in DOMAIN st.grams[g] :
       m \in st.members /\ st.grams[g][m] >= 1
  /\ \A m \in st.members : \A g \in (DOMAIN st.grams) \cup gramsOf(pad(key(m))) :
       LET has == g \in DOMAIN st.grams /\ m \in DOMAIN st.grams[g]
       IN /\ has <=> occ(g, pad(key(m))) >= 1
          /\ has => st.grams[g][m] = occ(g, pad(key(m)))

\* the size of the multiset intersection of the n-grams of a query and a key
sharedCount(query, m) ==
  LET G == gramsOf(pad(query))
      f == [g \in G |-> Min(occ(g, pad(query)), occ(g, pad(key(m))))]
  IN Sum(f, G)
expectedShared(st, query) ==
  [m \in {x \in st.members : sharedCount(query, x) >= 1} |-> sharedCount(query, m)]

\* the similarity of a member to a query
expectedSimilarity(query, m) ==
  LET same == sharedCount(query, m)
  IN _similarity(same, Len(pad(query)) + Len(pad(key(m))) - (2 * N) - same + 2, warp)

\* what search can return: one outcome for every order of the candidates
searchOutcomes(st, query, th) ==
  {[err |-> r.err, results |-> r.results] :
     r \in {search(st, query, th, o) : o \in Orders(DOMAIN items_sharing_ngrams(st, query))}}

ThresholdArgs == Thresholds \cup {None}

\* C1: in every reachable state the member set, length and _grams agree: an
\* item is a member iff it has a length iff it has, in _grams, an entry for
\* exactly the n-grams of its padded key, each with its number of occurrences.
C1_IndexConsistent == IndexConsistent(cur)

\* C2: for every reachable index and every item x that is not a member, add(x)
\* followed by remove(x) gives an index with the same members and the same
\* result of search for every query and threshold.
C2_RoundTrip ==
  (last.op = "remove" /\ last.undo) =>
    /\ members = last.pre.members
    /\ \A q \in Keys, th \in ThresholdArgs :
         searchOutcomes(cur, q, th) = searchOutcomes(last.pre, q, th)

\* C3: add and remove never end in an error; add of a member and remove of a
\* non-member leave the index unchanged; remove of a member completes normally.
C3_MutationsNeverFail ==
  /\ last.op \in {"add", "remove"} => last.err = NoError
  /\ \A item \in Items :
       /\ item \in members => addTo(cur, item) = cur
       /\ item \notin members => removeFrom(cur, item) = [st |-> cur, err |-> NoError]

\* C4: on a consistent index items_sharing_ngrams(query) maps each member to
\* the size of the multiset intersection of its n-grams with the query's, has
\* exactly the members with a size >= 1 as keys, and raises no error.
C4_MultisetIntersection ==
  (last.op = "items_sharing_ngrams" /\ IndexConsistent(cur))
    => last.shared = expectedShared(cur, last.query)

\* C4 witness: a query answered on a consistent index in which an n-gram occurs
\* more often in the query than in a member that shares it.
C4_Witness ==
  /\ last.op = "items_sharing_ngrams"
  /\ IndexConsistent(cur)
  /\ \E m \in DOMAIN last.shared : \E g \in gramsOf(pad(last.query)) :
       /\ occ(g, pad(key(m))) >= 1
       /\ occ(g, pad(last.query)) > occ(g, pad(key(m)))

\* C5: search(query, threshold) returns, exactly once each, the members that
\* share an n-gram with the query and whose similarity reaches the threshold
\* given (the configured one when none is given), and no other member, in an
\* order of non-increasing similarity.
C5_SearchResults ==
  last.op = "search" =>
    LET thr == IF last.th # None THEN last.th ELSE threshold
        expected == {m \in members : /\ sharedCount(last.query, m) >= 1
                                     /\ Geq(expectedSimilarity(last.query, m), thr)}
        res == last.results
    IN /\ last.err = NoError
       /\ {res[i][1] : i \in 1..Len(res)} = expected
       /\ Len(res) = Cardinality(expected)
       /\ \A i \in 1..Len(res) : res[i][2] = expectedSimilarity(last.query, res[i][1])
       /\ \A i \in 1..(Len(res) - 1) : Geq(res[i][2], res[i + 1][2])

\* C6: symmetric_difference_update(other) completes without error and leaves
\* the members (A - B) union (B - A), with length and _grams consistent.
C6_SymmetricDifference ==
  [][last'.op = "symmetric_difference_update" =>
       /\ last'.err = NoError
       /\ members' = (members \ last'.other) \cup (last'.other \ members)
       /\ IndexConsistent([members |-> members', length |-> length', grams |-> grams'])]_vars

\* C7: with the default N and pad_len, compare(s, s) is exactly 1 for every
\* string s, every warp and every threshold.
C7_CompareSelf ==
  (/\ last.op = "compare"
   /\ N = DefaultN /\ pad_len = N - 1
   /\ last.s1 # None /\ last.s1 = last.s2)
    => /\ last.err = NoError
       /\ last.value[2] > 0
       /\ last.value[1] = last.value[2]

\* C7 witness: the empty string compared with itself under the default N and
\* pad_len, a warp above 1 and the threshold 1.
C7_Witness ==
  /\ last.op = "compare"
  /\ N = DefaultN /\ pad_len = N - 1
  /\ last.s1 = <<>> /\ last.s2 = <<>>
  /\ warp > 1 /\ threshold = <<1, 1>>

\* C8: add(x) followed by remove(x) gives back the very index there was before:
\* the same members, the same length and the same _grams, buckets included.
C8_ExactReversal ==
  (last.op = "remove" /\ last.undo) => cur = last.pre

\* C9: searchitem(item, threshold) returns only members whose similarity
\* reaches the threshold given, and finditem(item, threshold) returns None when
\* no member's similarity reaches it.
C9_ThresholdApplied ==
  /\ (last.op = "searchitem" /\ last.th # None /\ last.err = NoError)
       => \A i \in 1..Len(last.results) : Geq(last.results[i][2], last.th)
  /\ (/\ last.op = "finditem" /\ last.th # None /\ last.err = NoError
      /\ \A m \in members : sharedCount(key(last.item), m) >= 1
           => ~Geq(expectedSimilarity(key(last.item), m), last.th))
       => last.found = None

\* C10: on a consistent index, under every valid configuration, search raises
\* no error and every candidate it scores has 1 <= samegrams <= allgrams, so
\* that every similarity is greater than 0 and at most 1.
C10_SimilarityDomain ==
  (last.op = "search" /\ IndexConsistent(cur)) =>
    /\ last.err = NoError
    /\ {sc.match : sc \in last.scored} = DOMAIN items_sharing_ngrams(cur, last.query)
    /\ \A sc \in last.scored :
         /\ 1 <= sc.samegrams /\ sc.samegrams <= sc.allgrams
         /\ sc.allgrams = Len(pad(last.query)) + Len(pad(key(sc.match)))
                            - (2 * N) - sc.samegrams + 2
         /\ sc.similarity[2] > 0
         /\ 0 < sc.similarity[1] /\ sc.similarity[1] <= sc.similarity[2]
    /\ \A i \in 1..Len(last.results) :
         LET sim == last.results[i][2]
         IN sim[2] > 0 /\ 0 < sim[1] /\ sim[1] <= sim[2]

\* C10 witness: a search on a consistent index under a warp above 1 that scores
\* a candidate sharing some but not all n-grams with the query.
C10_Witness ==
  /\ last.op = "search"
  /\ IndexConsistent(cur)
  /\ warp > 1
  /\ \E sc \in last.scored : sc.samegrams < sc.allgrams
====
